---- MODULE Spec2Model ----
(***************************************************************************)
(* Model of src/bot.py: a Telegram bot converting an amount of a currency  *)
(* into RUB, USD, KZT and THB at the rates of the Bank of Russia, with a   *)
(* module-level cache of the rate table.                                   *)
(*                                                                         *)
(* Text is modelled character by character: a Python str is a sequence of  *)
(* characters, a character is a one-element name.  Latin letters, digits   *)
(* and punctuation stand for themselves; a Cyrillic letter is written      *)
(* "c_<translit>" (lower case) or "C_<TRANSLIT>" (upper case), e.g.        *)
(* "c_r","c_u","c_b" is the word for rouble, "c_yo"/"c_e" are the letters  *)
(* folded by normalize_text.                                               *)
(*                                                                         *)
(* A Python float is modelled as an exact rational [k |-> "fin", n, d]     *)
(* (d > 0, lowest terms), or [k |-> "inf", n |-> +-1], or [k |-> "nan"];   *)
(* rounding is not modelled.                                               *)
(***************************************************************************)
EXTENDS Integers, Sequences, FiniteSets, TLC

\* Python's None where a str, dict or datetime is expected
None == <<"None">>

\* no exception was raised
NoExc == "NoException"

\* Python's None where a float is expected
NoneFloat == [k |-> "None"]

\* Python's None for _last_fetch_ts (timestamps are never negative)
NoneTs == -1

\* ---------------------------------------------------------------- bounds
MaxTicks == 2
TickSeconds == 300

\* ------------------------------------------------------- program constants
CACHE_TTL_SECONDS == 600

\* ------------------------------------------------------------ str helpers
Whitespace == {" ", "\t", "\n"}

Digits == <<"0", "1", "2", "3", "4", "5", "6", "7", "8", "9">>

CasePairs ==
  << <<"A","a">>, <<"B","b">>, <<"C","c">>, <<"D","d">>, <<"E","e">>,
     <<"F","f">>, <<"G","g">>, <<"H","h">>, <<"I","i">>, <<"J","j">>,
     <<"K","k">>, <<"L","l">>, <<"M","m">>, <<"N","n">>, <<"O","o">>,
     <<"P","p">>, <<"Q","q">>, <<"R","r">>, <<"S","s">>, <<"T","t">>,
     <<"U","u">>, <<"V","v">>, <<"W","w">>, <<"X","x">>, <<"Y","y">>,
     <<"Z","z">>,
     <<"C_A","c_a">>, <<"C_B","c_b">>, <<"C_V","c_v">>, <<"C_G","c_g">>,
     <<"C_D","c_d">>, <<"C_E","c_e">>, <<"C_YO","c_yo">>, <<"C_ZH","c_zh">>,
     <<"C_Z","c_z">>, <<"C_I","c_i">>, <<"C_J","c_j">>, <<"C_K","c_k">>,
     <<"C_L","c_l">>, <<"C_M","c_m">>, <<"C_N","c_n">>, <<"C_O","c_o">>,
     <<"C_P","c_p">>, <<"C_R","c_r">>, <<"C_S","c_s">>, <<"C_T","c_t">>,
     <<"C_U","c_u">>, <<"C_F","c_f">>, <<"C_H","c_h">>, <<"C_TS","c_ts">>,
     <<"C_CH","c_ch">>, <<"C_SH","c_sh">>, <<"C_SCH","c_sch">>,
     <<"C_HARD","c_hard">>, <<"C_Y","c_y">>, <<"C_SOFT","c_soft">>,
     <<"C_EE","c_ee">>, <<"C_YU","c_yu">>, <<"C_YA","c_ya">> >>

\* the lower-case letter of each upper-case letter
LowerOf == [c \in {CasePairs[i][1] : i \in 1..Len(CasePairs)} |->
              CasePairs[CHOOSE i \in 1..Len(CasePairs) : CasePairs[i][1] = c][2]]

\* the upper-case letter of each lower-case letter
UpperOf == [c \in {CasePairs[i][2] : i \in 1..Len(CasePairs)} |->
              CasePairs[CHOOSE i \in 1..Len(CasePairs) : CasePairs[i][2] = c][1]]

LowerChar(c) == IF c \in DOMAIN LowerOf THEN LowerOf[c] ELSE c

UpperChar(c) == IF c \in DOMAIN UpperOf THEN UpperOf[c] ELSE c

\* str.lower()
Lower(s) == [i \in 1..Len(s) |-> LowerChar(s[i])]

\* str.upper()
Upper(s) == [i \in 1..Len(s) |-> UpperChar(s[i])]

\* str.replace(a, b) for one-character a and b
Replace(s, a, b) == [i \in 1..Len(s) |-> IF s[i] = a THEN b ELSE s[i]]

RECURSIVE LStrip(_)
LStrip(s) ==
  IF s # <<>> /\ Head(s) \in Whitespace THEN LStrip(Tail(s)) ELSE s

RECURSIVE RStrip(_)
RStrip(s) ==
  IF s # <<>> /\ s[Len(s)] \in Whitespace
  THEN RStrip(SubSeq(s, 1, Len(s) - 1))
  ELSE s

\* str.strip()
Strip(s) == RStrip(LStrip(s))

\* str.split(): split on runs of whitespace, no empty parts
RECURSIVE SplitFrom(_, _, _)
SplitFrom(s, cur, acc) ==
  IF s = <<>>
  THEN IF cur = <<>> THEN acc ELSE Append(acc, cur)
  ELSE IF Head(s) \in Whitespace
       THEN SplitFrom(Tail(s), <<>>, IF cur = <<>> THEN acc ELSE Append(acc, cur))
       ELSE SplitFrom(Tail(s), Append(cur, Head(s)), acc)

Split(s) == SplitFrom(s, <<>>, <<>>)

\* " ".join(parts)
RECURSIVE Join(_)
Join(parts) ==
  IF parts = <<>> THEN <<>>
  ELSE IF Len(parts) = 1 THEN parts[1]
  ELSE parts[1] \o <<" ">> \o Join(Tail(parts))

\* sub in s
Contains(sub, s) ==
  \E i \in 1..(Len(s) + 1) :
     /\ i + Len(sub) - 1 <= Len(s)
     /\ SubSeq(s, i, i + Len(sub) - 1) = sub

\* -------------------------------------------------------------- numbers
RECURSIVE Gcd(_, _)
Gcd(a, b) == IF b = 0 THEN a ELSE Gcd(b, a % b)

Abs(n) == IF n < 0 THEN -n ELSE n

Fin(n, d) ==
  LET g == Gcd(Abs(n), d) IN [k |-> "fin", n |-> n \div g, d |-> d \div g]

Inf(sign) == [k |-> "inf", n |-> sign]

NaN == [k |-> "nan"]

IsZero(x) == x.k = "fin" /\ x.n = 0

Sign(x) == IF x.k = "nan" THEN 0 ELSE IF x.n > 0 THEN 1 ELSE IF x.n < 0 THEN -1 ELSE 0

\* float * float
Mul(x, y) ==
  IF x.k = "nan" \/ y.k = "nan" THEN NaN
  ELSE IF x.k = "inf" \/ y.k = "inf"
       THEN IF IsZero(x) \/ IsZero(y) THEN NaN ELSE Inf(Sign(x) * Sign(y))
       ELSE Fin(x.n * y.n, x.d * y.d)

\* float / float for a non-zero divisor (a zero divisor raises ZeroDivisionError)
Div(x, y) ==
  IF x.k = "nan" \/ y.k = "nan" THEN NaN
  ELSE IF x.k = "inf"
       THEN IF y.k = "inf" THEN NaN ELSE Inf(Sign(x) * Sign(y))
       ELSE IF y.k = "inf" THEN Fin(0, 1)
            ELSE Fin(x.n * y.d * Sign(y), x.d * Abs(y.n))

IsDigit(c) == \E i \in 1..Len(Digits) : Digits[i] = c

DigitVal(c) == (CHOOSE i \in 1..Len(Digits) : Digits[i] = c) - 1

RECURSIVE Pow10(_)
Pow10(e) == IF e = 0 THEN 1 ELSE 10 * Pow10(e - 1)

\* digit (["_"] digit)* : the digit part of a Python numeric literal
RECURSIVE IsDigitPart(_)
IsDigitPart(s) ==
  /\ s # <<>>
  /\ IsDigit(Head(s))
  /\ \/ Len(s) = 1
     \/ IsDigitPart(Tail(s))
     \/ Len(s) >= 3 /\ s[2] = "_" /\ IsDigitPart(Tail(Tail(s)))

RECURSIVE DigitsValue(_, _)
DigitsValue(s, acc) ==
  IF s = <<>> THEN acc
  ELSE IF Head(s) = "_" THEN DigitsValue(Tail(s), acc)
  ELSE DigitsValue(Tail(s), 10 * acc + DigitVal(Head(s)))

CountDigits(s) == Cardinality({i \in 1..Len(s) : IsDigit(s[i])})

IndexOf(s, cs) ==
  IF \E i \in 1..Len(s) : s[i] \in cs
  THEN CHOOSE i \in 1..Len(s) : s[i] \in cs /\ \A j \in 1..(i - 1) : s[j] \notin cs
  ELSE 0

HasSign(s) == s # <<>> /\ Head(s) \in {"+", "-"}

Unsigned(s) == IF HasSign(s) THEN Tail(s) ELSE s

SignOf(s) == IF s # <<>> /\ Head(s) = "-" THEN -1 ELSE 1

\* int(s): [ok |-> FALSE] stands for ValueError
ParseInt(str) ==
  LET s == Strip(str)
      body == Unsigned(s)
  IN IF IsDigitPart(body)
     THEN [ok |-> TRUE, v |-> SignOf(s) * DigitsValue(body, 0)]
     ELSE [ok |-> FALSE]

Mantissa(m) ==
  LET p == IndexOf(m, {"."})
      ip == IF p = 0 THEN m ELSE SubSeq(m, 1, p - 1)
      fp == IF p = 0 THEN <<>> ELSE SubSeq(m, p + 1, Len(m))
  IN [ok |-> /\ ip # <<>> \/ fp # <<>>
             /\ ip = <<>> \/ IsDigitPart(ip)
             /\ fp = <<>> \/ IsDigitPart(fp),
      ip |-> ip, fp |-> fp]

\* float(s): [ok |-> FALSE] stands for ValueError
ParseFloat(str) ==
  LET s == Strip(str)
      body == Unsigned(s)
      word == Lower(body)
      e == IndexOf(body, {"e", "E"})
      mant == Mantissa(IF e = 0 THEN body ELSE SubSeq(body, 1, e - 1))
      ex == IF e = 0 THEN <<>> ELSE SubSeq(body, e + 1, Len(body))
      exOk == e = 0 \/ IsDigitPart(Unsigned(ex))
  IN IF word \in {<<"i","n","f">>, <<"i","n","f","i","n","i","t","y">>}
     THEN [ok |-> TRUE, v |-> Inf(SignOf(s))]
     ELSE IF word = <<"n","a","n">>
     THEN [ok |-> TRUE, v |-> NaN]
     ELSE IF mant.ok /\ exOk
     THEN LET num == DigitsValue(mant.ip \o mant.fp, 0)
              scale == CountDigits(mant.fp)
              exv == IF e = 0 THEN 0 ELSE SignOf(ex) * DigitsValue(Unsigned(ex), 0)
              shift == exv - scale
          IN [ok |-> TRUE,
              v |-> IF shift >= 0
                    THEN Fin(SignOf(s) * num * Pow10(shift), 1)
                    ELSE Fin(SignOf(s) * num, Pow10(-shift))]
     ELSE [ok |-> FALSE]

\* ---------------------------------------------------------- bot.py:108
normalize_text(text) == Replace(Lower(Strip(text)), "c_yo", "c_e")

\* parse_amount_and_currency without the test len(parts) == 1
parse_amount_and_currency_NoLenCheck(text) ==
  LET cleaned == Strip(Replace(text, ",", "."))
      parts == Split(cleaned)
  IN IF parts = <<>> THEN [amount |-> NoneFloat, raw |-> None]
     ELSE LET f == ParseFloat(parts[1])
          IN IF ~f.ok THEN [amount |-> NoneFloat, raw |-> None]
             ELSE [amount |-> f.v, raw |-> Join(Tail(parts))]

\* ---------------------------------------------------------- bot.py:191
parse_amount_and_currency(text) ==
  LET cleaned == Strip(Replace(text, ",", "."))
      parts == Split(cleaned)
  IN IF parts = <<>> THEN [amount |-> NoneFloat, raw |-> None]
     ELSE LET f == ParseFloat(parts[1])
          IN IF ~f.ok THEN [amount |-> NoneFloat, raw |-> None]
             ELSE IF Len(parts) = 1 THEN [amount |-> f.v, raw |-> None]
             ELSE [amount |-> f.v, raw |-> Join(Tail(parts))]

\* ------------------------------------------------------------- dict
\* A Python dict is a sequence of <<key, value>> pairs in insertion order.
DictHas(d, key) == \E i \in 1..Len(d) : d[i][1] = key

DictGet(d, key) == d[CHOOSE i \in 1..Len(d) : d[i][1] = key][2]

\* d[key] = value: an existing key keeps its position
DictSet(d, key, value) ==
  IF DictHas(d, key)
  THEN [i \in 1..Len(d) |-> IF d[i][1] = key THEN <<key, value>> ELSE d[i]]
  ELSE Append(d, <<key, value>>)

\* ---------------------------------------------------------- bot.py:127
aliases ==
  <<
     <<<<"r","u","b">>, <<"R","U","B">>>>,
     <<<<"r","u","r">>, <<"R","U","B">>>>,
     <<<<"c_r","c_u","c_b">>, <<"R","U","B">>>>,
     <<<<"c_r","c_u","c_b","c_l","c_soft">>, <<"R","U","B">>>>,
     <<<<"c_r","c_u","c_b","c_l","c_i">>, <<"R","U","B">>>>,
     <<<<"c_r","c_u","c_b","c_l","c_e","c_j">>, <<"R","U","B">>>>,
     <<<<"c_r","c_o","c_s","c_s","c_i","c_ya">>, <<"R","U","B">>>>,
     <<<<"c_r","c_f">>, <<"R","U","B">>>>,
     <<<<"r","u","s","s","i","a">>, <<"R","U","B">>>>,
     <<<<"u","s","d">>, <<"U","S","D">>>>,
     <<<<"c_d","c_o","c_l","c_l","c_a","c_r">>, <<"U","S","D">>>>,
     <<<<"c_d","c_o","c_l","c_l","c_a","c_r","c_y">>, <<"U","S","D">>>>,
     <<<<"c_d","c_o","c_l","c_l","c_a","c_r","c_o","c_v">>, <<"U","S","D">>>>,
     <<<<"c_b","c_a","c_k","c_s">>, <<"U","S","D">>>>,
     <<<<"c_b","c_a","c_k","c_s","c_y">>, <<"U","S","D">>>>,
     <<<<"c_s","c_sh","c_a">>, <<"U","S","D">>>>,
     <<<<"u","s","a">>, <<"U","S","D">>>>,
     <<<<"a","m","e","r","i","c","a">>, <<"U","S","D">>>>,
     <<<<"c_a","c_m","c_e","c_r","c_i","c_k","c_a">>, <<"U","S","D">>>>,
     <<<<"k","z","t">>, <<"K","Z","T">>>>,
     <<<<"c_t","c_e","c_n","c_g","c_e">>, <<"K","Z","T">>>>,
     <<<<"c_k","c_a","c_z","c_a","c_h","c_s","c_t","c_a","c_n">>, <<"K","Z","T">>>>,
     <<<<"c_k","c_a","c_z","c_a","c_h","c_s","c_t","c_a","c_n","c_s","c_k","c_i","c_j">>, <<"K","Z","T">>>>,
     <<<<"c_k","c_a","c_z","c_a","c_h","c_s","c_t","c_a","c_n","c_a">>, <<"K","Z","T">>>>,
     <<<<"t","h","b">>, <<"T","H","B">>>>,
     <<<<"c_b","c_a","c_t">>, <<"T","H","B">>>>,
     <<<<"c_b","c_a","c_t","c_y">>, <<"T","H","B">>>>,
     <<<<"c_b","c_a","c_t","c_o","c_v">>, <<"T","H","B">>>>,
     <<<<"c_t","c_a","c_j","c_l","c_a","c_n","c_d">>, <<"T","H","B">>>>,
     <<<<"c_t","c_a","c_j","c_s","c_k","c_i","c_j">>, <<"T","H","B">>>>,
     <<<<"t","h","a","i","l","a","n","d">>, <<"T","H","B">>>>
  >>

RUB == <<"R","U","B">>
USD == <<"U","S","D">>
KZT == <<"K","Z","T">>
THB == <<"T","H","B">>

\* bot.py:172  for token in tokens: if token in aliases: return aliases[token]
RECURSIVE AliasLoop(_)
AliasLoop(tokens) ==
  IF tokens = <<>> THEN None
  ELSE IF DictHas(aliases, Head(tokens)) THEN DictGet(aliases, Head(tokens))
  ELSE AliasLoop(Tail(tokens))

\* IsoLoop without the test "code in rates"
IsoLoop_Unchecked(tokens, rates) ==
  IF tokens = <<>> THEN None ELSE Upper(Head(tokens))

\* bot.py:177  for token in tokens: code = token.upper(); if code in rates
RECURSIVE IsoLoop(_, _)
IsoLoop(tokens, rates) ==
  IF tokens = <<>> THEN None
  ELSE IF DictHas(rates, Upper(Head(tokens))) THEN Upper(Head(tokens))
  ELSE IsoLoop(Tail(tokens), rates)

\* bot.py:183  for code, name in names.items(): if normalized in name_norm
RECURSIVE NameLoop(_, _)
NameLoop(normalized, items) ==
  IF items = <<>> THEN None
  ELSE IF Contains(normalized, normalize_text(Head(items)[2])) THEN Head(items)[1]
  ELSE NameLoop(normalized, Tail(items))

Tokens(raw_currency) ==
  Split(Replace(Replace(normalize_text(raw_currency), ",", " "), ".", " "))

\* detect_currency_code with the ISO-code loop ahead of the alias loop
detect_currency_code_IsoFirst(raw_currency, rates, names) ==
  LET normalized == normalize_text(raw_currency)
      tokens == Tokens(raw_currency)
      byAlias == AliasLoop(tokens)
      byIso == IsoLoop(tokens, rates)
  IN IF byIso # None THEN byIso
     ELSE IF byAlias # None THEN byAlias
     ELSE NameLoop(normalized, names)

\* ---------------------------------------------------------- bot.py:112
detect_currency_code(raw_currency, rates, names) ==
  LET normalized == normalize_text(raw_currency)
      tokens == Tokens(raw_currency)
      byAlias == AliasLoop(tokens)
      byIso == IsoLoop(tokens, rates)
  IN IF byAlias # None THEN byAlias
     ELSE IF byIso # None THEN byIso
     ELSE NameLoop(normalized, names)

\* ------------------------------------------------------ inputs: messages
MsgUsd == <<"1","0","0"," ","u","s","d">>

MsgNoCurrency == <<"1","0","0">>

MsgNoAmount == <<"a","b","c"," ","u","s","d">>

MsgKzt == <<" ","2",",","5"," ","K","Z","T">>

MsgEur == <<"3"," ","e","u","r">>

MsgUnknown == <<"1"," ","x","y","z">>

\* update.message.text of the inbound updates; None: an update without text
Messages == {None, MsgUsd, MsgNoCurrency, MsgNoAmount, MsgKzt, MsgEur, MsgUnknown}

\* raw currency phrases handed to detect_currency_code
Phrases ==
  {<<"u","s","d">>,
   <<"c_r","c_u","c_b">>,
   <<"E","u","r">>,
   <<"c_yu","c_a","c_n","c_soft">>,
   <<"x","y","z">>,
   <<"e","u","r"," ","u","s","d">>,
   <<"k","z","t">>,
   <<"C_D","C_O","C_L","C_L","C_A","C_R">>,
   <<"c_d","c_o","c_l","c_l","c_a","c_r"," ","c_s","c_sh","c_a">>,
   <<"c","h","f",".","u","s","d">>,
   <<"c_t","C_YO","c_n","c_g","c_e">>,
   <<"c_d","c_o","c_l">>,
   <<"c_f","c_u","c_n","c_t">>,
   <<"j","p","y">>,
   <<"c_e","c_v","c_r","c_o"," ","e","u","r">>,
   <<"g","b","p",","," ","c_r","c_u","c_b","c_l","c_i">>,
   <<"T","H","B">>,
   <<"C_YU">>}

\* --------------------------------------------------------- inputs: feeds
\* The XML document of a response as xml.etree sees it: the root's Date
\* attribute and the Valute children, each child element's text or None when
\* the child element is absent.
\* a regular daily feed
FeedDaily ==
  [Date |-> <<"0","5",".","1","1",".","2","0","2","6">>,
   Valutes |-> <<
     [CharCode |-> <<"A","U","D">>, Nominal |-> <<"1">>, Value |-> <<"5","2",",","5">>, Name |-> <<"C_A","c_v","c_s","c_t","c_r","c_a","c_l","c_i","c_j","c_s","c_k","c_i","c_j"," ","c_d","c_o","c_l","c_l","c_a","c_r">>],
     [CharCode |-> <<"U","S","D">>, Nominal |-> <<"1">>, Value |-> <<"9","5",",","0","0">>, Name |-> <<"C_D","c_o","c_l","c_l","c_a","c_r"," ","C_S","C_SH","C_A">>],
     [CharCode |-> <<"e","u","r">>, Nominal |-> <<"1">>, Value |-> <<"1","1","0",",","5">>, Name |-> <<"C_E","c_v","c_r","c_o">>],
     [CharCode |-> <<"K","Z","T">>, Nominal |-> <<"1","0","0">>, Value |-> <<"2","1",",","0","0">>, Name |-> <<"C_T","c_e","c_n","c_g","c_e">>],
     [CharCode |-> <<"T","H","B">>, Nominal |-> <<"1","0">>, Value |-> <<"2","6",",","0">>, Name |-> <<"C_B","c_a","c_t">>],
     [CharCode |-> <<"C","N","Y">>, Nominal |-> <<"1">>, Value |-> <<"1","3",",","2">>, Name |-> <<"C_YU","c_a","c_n","c_soft">>] >>]

\* the root element has no Date attribute
FeedNoDate ==
  [Date |-> None,
   Valutes |-> <<
     [CharCode |-> <<"U","S","D">>, Nominal |-> <<"1">>, Value |-> <<"9","5",",","0","0">>, Name |-> <<"C_D","c_o","c_l","c_l","c_a","c_r"," ","C_S","C_SH","C_A">>],
     [CharCode |-> <<"K","Z","T">>, Nominal |-> <<"1","0","0">>, Value |-> <<"2","1",",","0","0">>, Name |-> <<"C_T","c_e","c_n","c_g","c_e">>],
     [CharCode |-> <<"T","H","B">>, Nominal |-> <<"1","0">>, Value |-> <<"2","6",",","0">>, Name |-> <<"C_B","c_a","c_t">>] >>]

\* records with an empty code, no code, a bad nominal, a bad value, no Value,
\* a zero Value, the code RUB, a negative nominal and no Name
FeedBadRecords ==
  [Date |-> <<"0","5",".","1","1",".","2","0","2","6">>,
   Valutes |-> <<
     [CharCode |-> <<>>, Nominal |-> <<"1">>, Value |-> <<"5",",","0">>, Name |-> <<"C_P","c_u","c_s","c_t","c_o">>],
     [CharCode |-> None, Nominal |-> <<"1">>, Value |-> <<"6",",","0">>, Name |-> <<"C_N","c_e","c_t"," ","c_k","c_o","c_d","c_a">>],
     [CharCode |-> <<"G","B","P">>, Nominal |-> <<"x">>, Value |-> <<"1","2","0",",","0">>, Name |-> <<"C_F","c_u","c_n","c_t">>],
     [CharCode |-> <<"C","H","F">>, Nominal |-> <<"1">>, Value |-> <<"1",",","2",",","3">>, Name |-> <<"C_F","c_r","c_a","c_n","c_k">>],
     [CharCode |-> <<"J","P","Y">>, Nominal |-> <<"1","0","0">>, Value |-> None, Name |-> <<"C_I","c_e","c_n","c_a">>],
     [CharCode |-> <<"U","S","D">>, Nominal |-> <<"1">>, Value |-> <<"9","5",",","0","0">>, Name |-> <<"C_D","c_o","c_l","c_l","c_a","c_r"," ","C_S","C_SH","C_A">>],
     [CharCode |-> <<"K","Z","T">>, Nominal |-> <<"1","0","0">>, Value |-> <<"0">>, Name |-> <<"C_T","c_e","c_n","c_g","c_e">>],
     [CharCode |-> <<"T","H","B">>, Nominal |-> <<"1","0">>, Value |-> <<"2","6",",","0">>, Name |-> <<"C_B","c_a","c_t">>],
     [CharCode |-> <<"R","U","B">>, Nominal |-> <<"1">>, Value |-> <<"2",",","0">>, Name |-> <<"C_R","c_u","c_b","c_l","c_soft">>],
     [CharCode |-> <<"S","E","K">>, Nominal |-> <<"-","1">>, Value |-> <<"9",",","0">>, Name |-> None] >>]

\* one record has the nominal 0
FeedZeroNominal ==
  [Date |-> <<"0","5",".","1","1",".","2","0","2","6">>,
   Valutes |-> <<
     [CharCode |-> <<"U","S","D">>, Nominal |-> <<"1">>, Value |-> <<"9","5",",","0","0">>, Name |-> <<"C_D","c_o","c_l","c_l","c_a","c_r"," ","C_S","C_SH","C_A">>],
     [CharCode |-> <<"K","Z","T">>, Nominal |-> <<"0">>, Value |-> <<"2","1",",","0","0">>, Name |-> <<"C_T","c_e","c_n","c_g","c_e">>],
     [CharCode |-> <<"T","H","B">>, Nominal |-> <<"1","0">>, Value |-> <<"2","6",",","0">>, Name |-> <<"C_B","c_a","c_t">>] >>]

\* no KZT record
FeedNoTenge ==
  [Date |-> <<"6",".","1","1",".","2","0","2","6">>,
   Valutes |-> <<
     [CharCode |-> <<"U","S","D">>, Nominal |-> <<"1">>, Value |-> <<"9","5",",","0","0">>, Name |-> <<"C_D","c_o","c_l","c_l","c_a","c_r"," ","C_S","C_SH","C_A">>],
     [CharCode |-> <<"T","H","B">>, Nominal |-> <<"1","0">>, Value |-> <<"2","6",",","0">>, Name |-> <<"C_B","c_a","c_t">>],
     [CharCode |-> <<"e","u","r">>, Nominal |-> <<"1">>, Value |-> <<"1","1","0",",","5">>, Name |-> <<"C_E","c_v","c_r","c_o">>] >>]

\* the Date attribute is not DD.MM.YYYY
FeedBadDate ==
  [Date |-> <<"2","0","2","6","-","1","1","-","0","5">>,
   Valutes |-> <<
     [CharCode |-> <<"U","S","D">>, Nominal |-> <<"1">>, Value |-> <<"9","5",",","0","0">>, Name |-> <<"C_D","c_o","c_l","c_l","c_a","c_r"," ","C_S","C_SH","C_A">>],
     [CharCode |-> <<"K","Z","T">>, Nominal |-> <<"1","0","0">>, Value |-> <<"2","1",",","0","0">>, Name |-> <<"C_T","c_e","c_n","c_g","c_e">>],
     [CharCode |-> <<"T","H","B">>, Nominal |-> <<"1","0">>, Value |-> <<"2","6",",","0">>, Name |-> <<"C_B","c_a","c_t">>] >>]

Feeds == {FeedDaily, FeedNoDate, FeedBadRecords, FeedZeroNominal, FeedNoTenge, FeedBadDate}

\* What requests.get / raise_for_status / ET.fromstring can yield
Responses ==
  {[status |-> "timeout"], [status |-> "http_error"], [status |-> "malformed"]}
  \cup {[status |-> "ok", root |-> f] : f \in Feeds}

\* ----------------------------------------------------------- datetime
AllDigits(s) == \A i \in 1..Len(s) : IsDigit(s[i])

IsLeap(y) == (y % 4 = 0 /\ y % 100 # 0) \/ y % 400 = 0

DaysIn(m, y) ==
  IF m = 2 THEN (IF IsLeap(y) THEN 29 ELSE 28)
  ELSE IF m \in {4, 6, 9, 11} THEN 30 ELSE 31

\* datetime.strptime(s, "%d.%m.%Y"): [ok |-> FALSE] stands for ValueError
Strptime(s) ==
  LET p1 == IndexOf(s, {"."})
      rest == IF p1 = 0 THEN <<>> ELSE SubSeq(s, p1 + 1, Len(s))
      p2 == IndexOf(rest, {"."})
      ds == IF p1 = 0 THEN <<>> ELSE SubSeq(s, 1, p1 - 1)
      ms == IF p2 = 0 THEN <<>> ELSE SubSeq(rest, 1, p2 - 1)
      ys == IF p2 = 0 THEN <<>> ELSE SubSeq(rest, p2 + 1, Len(rest))
      shape == /\ p1 # 0 /\ p2 # 0
               /\ Len(ds) \in {1, 2} /\ AllDigits(ds)
               /\ Len(ms) \in {1, 2} /\ AllDigits(ms)
               /\ Len(ys) = 4 /\ AllDigits(ys)
      d == DigitsValue(ds, 0)
      m == DigitsValue(ms, 0)
      y == DigitsValue(ys, 0)
  IN IF shape /\ y >= 1 /\ m \in 1..12 /\ d >= 1 /\ d <= DaysIn(m, y)
     THEN [ok |-> TRUE, v |-> <<"date", d, m, y>>]
     ELSE [ok |-> FALSE]

\* datetime.now() read when the clock shows t
DatetimeNow(t) == <<"now", t>>

\* ---------------------------------------------------------- bot.py:72
RUB_NAME == <<"C_R","c_o","c_s","c_s","c_i","c_j","c_s","c_k","c_i","c_j"," ","c_r","c_u","c_b","c_l","c_soft">>

\* valute.findtext(tag, default)
FindText(valute, tag, default) ==
  IF valute[tag] = None THEN default ELSE valute[tag]

\* bot.py:87-100, the body of the loop for one Valute element once its
\* texts are read: nominal and value are the outcomes of int() and float();
\* exc is NoExc, "skip" (continue) or the exception that leaves the loop
ValuteStore(valute, char_code, nominal, value, rates, names) ==
  IF char_code = <<>> THEN [exc |-> "skip", rates |-> rates, names |-> names]
  ELSE IF ~nominal.ok \/ ~value.ok
  THEN [exc |-> "skip", rates |-> rates, names |-> names]
  ELSE IF nominal.v = 0
  THEN [exc |-> "ZeroDivisionError", rates |-> rates, names |-> names]
  ELSE [exc |-> NoExc,
        rates |-> DictSet(rates, char_code, Div(value.v, Fin(nominal.v, 1))),
        names |-> DictSet(names, char_code, FindText(valute, "Name", char_code))]

\* bot.py:83-100, the body of the loop for one Valute element
ValuteStep(valute, rates, names) ==
  ValuteStore(valute,
              Upper(FindText(valute, "CharCode", <<>>)),
              ParseInt(FindText(valute, "Nominal", <<"1">>)),
              ParseFloat(Replace(FindText(valute, "Value", <<"0">>), ",", ".")),
              rates, names)

RECURSIVE ValuteLoop(_, _, _)

\* bot.py:82, after one element: the loop goes on unless an exception left it
ValuteNext(rest, r) ==
  IF r.exc \in {NoExc, "skip"} THEN ValuteLoop(rest, r.rates, r.names) ELSE r

\* bot.py:82  for valute in root.findall("Valute")
ValuteLoop(valutes, rates, names) ==
  IF valutes = <<>> THEN [exc |-> NoExc, rates |-> rates, names |-> names]
  ELSE ValuteNext(Tail(valutes), ValuteStep(Head(valutes), rates, names))

\* CbrDate without the fallback to the clock
CbrDate_Strict(root, clock) ==
  IF root.Date # None /\ root.Date # <<>>
  THEN Strptime(root.Date)
  ELSE [ok |-> FALSE]

\* bot.py:75-80: the Date attribute, or the clock when it is missing or empty
CbrDate(root, clock) ==
  IF root.Date # None /\ root.Date # <<>>
  THEN Strptime(root.Date)
  ELSE [ok |-> TRUE, v |-> DatetimeNow(clock)]

\* bot.py:75-105: what fetch_cbr_rates makes of a parsed document, given
\* the outcome of the date and of the loop over the Valute elements
ParsedFeed(date, loop) ==
  IF ~date.ok THEN [exc |-> "ValueError"]
  ELSE IF loop.exc # NoExc THEN [exc |-> loop.exc]
  ELSE [exc |-> NoExc, rates |-> loop.rates, names |-> loop.names,
        date |-> date.v]

\* bot.py:67-100: the request and the parsing of its response;
\* exc is NoExc or the exception that leaves fetch_cbr_rates
ParseResponse(resp, clock) ==
  IF resp.status = "timeout" THEN [exc |-> "RequestException"]
  ELSE IF resp.status = "http_error" THEN [exc |-> "HTTPError"]
  ELSE IF resp.status = "malformed" THEN [exc |-> "ParseError"]
  ELSE ParsedFeed(CbrDate(resp.root, clock),
                  ValuteLoop(resp.root.Valutes,
                             << <<RUB, Fin(1, 1)>> >>, << <<RUB, RUB_NAME>> >>))

\* ---------------------------------------------------------- bot.py:304
\* the reply with the converted amounts, or the exception of a division
Amounts(amount, currency_code, cbr_date, amount_in_rub, usd_rate, kzt_rate, thb_rate) ==
  IF IsZero(usd_rate) \/ IsZero(kzt_rate) \/ IsZero(thb_rate)
  THEN [kind |-> "ZeroDivisionError"]
  ELSE [kind |-> "Result", code |-> currency_code,
        amount |-> amount, date |-> cbr_date,
        rub |-> amount_in_rub,
        usd |-> Div(amount_in_rub, usd_rate),
        kzt |-> Div(amount_in_rub, kzt_rate),
        thb |-> Div(amount_in_rub, thb_rate)]

\* ---------------------------------------------------------- bot.py:275
\* handle_convert once the currency is detected
ConvertCode(amount, raw_currency, rates, cbr_date, currency_code) ==
  IF currency_code = None
  THEN [kind |-> "UnknownCurrency", raw |-> raw_currency]
  ELSE IF ~DictHas(rates, currency_code)
  THEN [kind |-> "CurrencyNotQuoted", code |-> currency_code]
  ELSE IF ~DictHas(rates, USD) \/ ~DictHas(rates, KZT) \/ ~DictHas(rates, THB)
  THEN [kind |-> "IncompleteRates"]
  ELSE Amounts(amount, currency_code, cbr_date,
               Mul(amount, DictGet(rates, currency_code)),
               DictGet(rates, USD), DictGet(rates, KZT), DictGet(rates, THB))

\* ---------------------------------------------------------- bot.py:274
\* handle_convert once the rates are there: the reply, or the exception
\* that leaves the handler
Convert(amount, raw_currency, rates, names, cbr_date) ==
  ConvertCode(amount, raw_currency, rates, cbr_date,
              detect_currency_code(raw_currency, rates, names))

\* ------------------------------------------------------------- state
VARIABLES
  now,             \* time.time(), seconds
  _rates_cache,    \* bot.py:27
  _names_cache,    \* bot.py:28
  _date_cache,     \* bot.py:29
  _last_fetch_ts,  \* bot.py:33
  pc,              \* per caller: "idle", "recv", "fetching", "done"
  text,            \* per caller: update.message.text
  force,           \* per caller: the force argument of fetch_cbr_rates
  now_ts,          \* per caller: bot.py:55, while the request is in flight
  response,        \* per caller: what requests.get came back with
  outcome,         \* per caller: the reply, return value or exception
  running,         \* the caller that occupies the thread inside requests.get, or 0
  raw_currency,    \* detect_currency_code on its own: the phrase
  currency_code    \* detect_currency_code on its own: the result

vars == <<now, _rates_cache, _names_cache, _date_cache, _last_fetch_ts,
          pc, text, force, now_ts, response, outcome, running,
          raw_currency, currency_code>>

cache == <<_rates_cache, _names_cache, _date_cache, _last_fetch_ts>>

resolver == <<raw_currency, currency_code>>

Handlers == 1..2

NoOutcome == [kind |-> "None"]

NoResponse == [status |-> "none"]

Unset == <<"unset">>

\* CacheValid with the age test written <= : a table of age exactly
\* CACHE_TTL_SECONDS is still served
CacheValid_Inclusive(f, ts) ==
  /\ ~f
  /\ _rates_cache # None
  /\ _names_cache # None
  /\ _date_cache # None
  /\ _last_fetch_ts # NoneTs
  /\ (ts - _last_fetch_ts) <= CACHE_TTL_SECONDS

\* bot.py:56-63: the cached table is served
CacheValid(f, ts) ==
  /\ ~f
  /\ _rates_cache # None
  /\ _names_cache # None
  /\ _date_cache # None
  /\ _last_fetch_ts # NoneTs
  /\ (ts - _last_fetch_ts) < CACHE_TTL_SECONDS

\* CacheAfter with the timestamp stored before the request is made
CacheAfter_StampFirst(r, ts) ==
  IF r.exc # NoExc
  THEN <<_rates_cache, _names_cache, _date_cache, ts>>
  ELSE <<r.rates, r.names, r.date, ts>>

\* bot.py:102-103: the module-level cache after the request of a call that
\* read the clock at ts; r is the outcome of the request and the parsing
CacheAfter(r, ts) ==
  IF r.exc # NoExc THEN cache ELSE <<r.rates, r.names, r.date, ts>>

\* bot.py:27-33, and no update being handled
Init ==
  /\ now = 0
  /\ _rates_cache = None
  /\ _names_cache = None
  /\ _date_cache = None
  /\ _last_fetch_ts = NoneTs
  /\ pc = [h \in Handlers |-> "idle"]
  /\ text = [h \in Handlers |-> None]
  /\ force = [h \in Handlers |-> FALSE]
  /\ now_ts = [h \in Handlers |-> 0]
  /\ response = [h \in Handlers |-> NoResponse]
  /\ outcome = [h \in Handlers |-> NoOutcome]
  /\ running = 0
  /\ raw_currency = None
  /\ currency_code = Unset

\* the clock advances
Tick ==
  /\ now + TickSeconds <= MaxTicks * TickSeconds
  /\ now' = now + TickSeconds
  /\ UNCHANGED <<cache, pc, text, force, now_ts, response, outcome, running,
                 resolver>>

\* bot.py:340: the application hands a text update to handle_convert.
\* Handlers are coroutines on one event loop; a second one may start while
\* the first awaits the sending of its reply, never while it runs.
Deliver(h, t) ==
  /\ pc[h] = "idle"
  /\ pc' = [pc EXCEPT ![h] = "recv"]
  /\ text' = [text EXCEPT ![h] = t]
  /\ UNCHANGED <<now, cache, force, now_ts, response, outcome, running, resolver>>

\* ThreadFree when the request is awaited and gives the event loop back
ThreadFree_Awaited == TRUE

\* bot.py:67: requests.get is a blocking call on the only thread, so a
\* coroutine runs only while nobody is inside it
ThreadFree == running = 0

\* bot.py:251-266 and 53-66: handle_convert with the text parsed into p,
\* up to the reply or up to the blocking requests.get inside fetch_cbr_rates
HandleParsed(h, p) ==
  IF p.amount = NoneFloat \/ p.raw = None \/ CacheValid(FALSE, now)
  THEN /\ pc' = [pc EXCEPT ![h] = "done"]
       /\ outcome' = [outcome EXCEPT ![h] =
             IF p.amount = NoneFloat THEN [kind |-> "MissingAmount"]
             ELSE IF p.raw = None THEN [kind |-> "MissingCurrency"]
             ELSE Convert(p.amount, p.raw, _rates_cache, _names_cache, _date_cache)]
       /\ UNCHANGED <<now_ts, running>>
  ELSE /\ pc' = [pc EXCEPT ![h] = "fetching"]
       /\ now_ts' = [now_ts EXCEPT ![h] = now]
       /\ running' = h
       /\ UNCHANGED outcome

\* bot.py:244-266 and 53-66: handle_convert up to the reply, or up to the
\* blocking requests.get inside fetch_cbr_rates
HandleConvert(h) ==
  /\ pc[h] = "recv"
  /\ ThreadFree
  /\ IF text[h] = None \/ text[h] = <<>>
     THEN /\ pc' = [pc EXCEPT ![h] = "done"]
          /\ outcome' = [outcome EXCEPT ![h] = [kind |-> "NoReply"]]
          /\ UNCHANGED <<now_ts, running>>
     ELSE HandleParsed(h, parse_amount_and_currency(Strip(text[h])))
  /\ UNCHANGED <<now, cache, text, force, response, resolver>>

\* bot.py:102-105: fetch_cbr_rates ends with r, the outcome of the request
\* and the parsing: the cache is filled, o is what the caller is left with
Fetched(h, resp, r, o) ==
  /\ _rates_cache' = CacheAfter(r, now_ts[h])[1]
  /\ _names_cache' = CacheAfter(r, now_ts[h])[2]
  /\ _date_cache' = CacheAfter(r, now_ts[h])[3]
  /\ _last_fetch_ts' = CacheAfter(r, now_ts[h])[4]
  /\ outcome' = [outcome EXCEPT ![h] = o]
  /\ pc' = [pc EXCEPT ![h] = "done"]
  /\ response' = [response EXCEPT ![h] = resp]
  /\ now_ts' = [now_ts EXCEPT ![h] = 0]
  /\ running' = 0
  /\ UNCHANGED <<now, text, force, resolver>>

\* bot.py:267-318: handle_convert after fetch_cbr_rates ended with r
Reply(r, p) ==
  IF r.exc # NoExc
  THEN [kind |-> "RatesUnavailable", exc |-> r.exc]
  ELSE Convert(p.amount, p.raw, r.rates, r.names, r.date)

\* fetch_cbr_rates ended with r: handle_convert goes on to its reply
FetchedFor(h, resp, r) ==
  Fetched(h, resp, r, Reply(r, parse_amount_and_currency(Strip(text[h]))))

\* bot.py:67-105 and 267-318: requests.get returns resp; fetch_cbr_rates
\* parses it and fills the cache, handle_convert goes on to its reply
FetchDone(h, resp) ==
  /\ pc[h] = "fetching"
  /\ text[h] # None
  /\ FetchedFor(h, resp, ParseResponse(resp, now))

\* bot.py:252-318: the awaited reply_text completes and the handler returns,
\* or the handler ends without a reply (bot.py:246, or an exception); also
\* the caller of fetch_cbr_rates takes what it returned or raised
Finish(h) ==
  /\ pc[h] = "done"
  /\ pc' = [pc EXCEPT ![h] = "idle"]
  /\ text' = [text EXCEPT ![h] = None]
  /\ force' = [force EXCEPT ![h] = FALSE]
  /\ response' = [response EXCEPT ![h] = NoResponse]
  /\ outcome' = [outcome EXCEPT ![h] = NoOutcome]
  /\ UNCHANGED <<now, cache, now_ts, running, resolver>>

Next ==
  \/ Tick
  \/ \E h \in Handlers, t \in Messages : Deliver(h, t)
  \/ \E h \in Handlers : HandleConvert(h)
  \/ \E h \in Handlers, resp \in Responses : FetchDone(h, resp)
  \/ \E h \in Handlers : Finish(h)

\* The bot: updates handled by handle_convert on one event loop
Spec == Init /\ [][Next]_vars

\* ------------------------------------------- fetch_cbr_rates on its own
\* bot.py:44-66: a call fetch_cbr_rates(f), up to its return from the cache
\* or up to the blocking requests.get
FetchCbrRates(h, f) ==
  /\ pc[h] = "idle"
  /\ ThreadFree
  /\ force' = [force EXCEPT ![h] = f]
  /\ IF CacheValid(f, now)
     THEN /\ pc' = [pc EXCEPT ![h] = "done"]
          /\ outcome' = [outcome EXCEPT ![h] =
                [kind |-> "Table", rates |-> _rates_cache,
                 names |-> _names_cache, date |-> _date_cache]]
          /\ UNCHANGED <<now_ts, running>>
     ELSE /\ pc' = [pc EXCEPT ![h] = "fetching"]
          /\ now_ts' = [now_ts EXCEPT ![h] = now]
          /\ running' = h
          /\ UNCHANGED outcome
  /\ UNCHANGED <<now, cache, text, response, resolver>>

\* bot.py:105: what fetch_cbr_rates returns or raises
Returned(r) ==
  IF r.exc # NoExc
  THEN [kind |-> "Raised", exc |-> r.exc]
  ELSE [kind |-> "Table", rates |-> r.rates, names |-> r.names, date |-> r.date]

\* fetch_cbr_rates ended with r
FetchedDirect(h, resp, r) == Fetched(h, resp, r, Returned(r))

\* bot.py:67-105: requests.get returns resp; the call returns the new table
\* or raises
FetchReturn(h, resp) ==
  /\ pc[h] = "fetching"
  /\ text[h] = None
  /\ FetchedDirect(h, resp, ParseResponse(resp, now))

NextCache ==
  \/ Tick
  \/ \E h \in Handlers, f \in BOOLEAN : FetchCbrRates(h, f)
  \/ \E h \in Handlers, resp \in Responses : FetchReturn(h, resp)
  \/ \E h \in Handlers : Finish(h)

\* Any sequence of calls of fetch_cbr_rates, forced or not
SpecCache == Init /\ [][NextCache]_vars

\* ------------------------------------- detect_currency_code on its own
\* The tables fetch_cbr_rates builds from the feeds
Tables ==
  {ParseResponse([status |-> "ok", root |-> f], 0) : f \in Feeds}

\* a phrase and a table, as handle_convert has them at bot.py:274
InitResolve ==
  /\ now = 0
  /\ \E t \in {tb \in Tables : tb.exc = NoExc} :
        /\ _rates_cache = t.rates
        /\ _names_cache = t.names
        /\ _date_cache = t.date
  /\ _last_fetch_ts = 0
  /\ pc = [h \in Handlers |-> "idle"]
  /\ text = [h \in Handlers |-> None]
  /\ force = [h \in Handlers |-> FALSE]
  /\ now_ts = [h \in Handlers |-> 0]
  /\ response = [h \in Handlers |-> NoResponse]
  /\ outcome = [h \in Handlers |-> NoOutcome]
  /\ running = 0
  /\ raw_currency \in Phrases
  /\ currency_code = Unset

\* bot.py:274
DetectCurrencyCode ==
  /\ currency_code = Unset
  /\ currency_code' = detect_currency_code(raw_currency, _rates_cache, _names_cache)
  /\ UNCHANGED <<now, cache, pc, text, force, now_ts, response, outcome,
                 running, raw_currency>>

NextResolve == DetectCurrencyCode

\* detect_currency_code applied to every phrase and table
SpecResolve == InitResolve /\ [][NextResolve]_vars

\* ------------------------------------------------------------ properties
\* h leaves requests.get in this step
FetchEnds(h) == pc[h] = "fetching" /\ pc'[h] = "done"

\* a refresh failed for h
Failed(o) == o.kind \in {"RatesUnavailable", "Raised"}

\* C1: a call of fetch_cbr_rates makes a request exactly when it is forced,
\* or nothing is cached, or CACHE_TTL_SECONDS or more have passed since the
\* timestamp of the last successful fetch.
C1_FetchExactlyWhenStale ==
  [][\A h \in Handlers :
       (pc[h] = "idle" /\ pc'[h] # "idle")
       => ((pc'[h] = "fetching")
           <=> (\/ force'[h]
                \/ _rates_cache = None
                \/ now - _last_fetch_ts >= CACHE_TTL_SECONDS))]_vars

\* C1 witness: a forced call is fetching although the cached table is fresh
C1_Witness ==
  \E h \in Handlers :
     /\ pc[h] = "fetching"
     /\ force[h]
     /\ _rates_cache # None
     /\ now_ts[h] - _last_fetch_ts < CACHE_TTL_SECONDS

\* C2: at most one caller is inside requests.get at any moment.
C2_OneFetchInFlight ==
  Cardinality({h \in Handlers : pc[h] = "fetching"}) <= 1

\* C2 witness: one handler is fetching while another has an update to
\* convert and no table is cached
C2_Witness ==
  \E h1, h2 \in Handlers :
     /\ h1 # h2
     /\ pc[h1] = "fetching"
     /\ pc[h2] = "recv"
     /\ text[h2] = MsgUsd
     /\ _rates_cache = None

\* C3: a refresh that fails on the network, on the HTTP status or on
\* malformed markup is reported to the caller that triggered it and leaves
\* the cached table, names, date and timestamp as they were.
C3_FailureKeepsCache ==
  [][\A h \in Handlers :
       (FetchEnds(h) /\ response'[h].status \in {"timeout", "http_error", "malformed"})
       => (outcome'[h].kind = "RatesUnavailable" /\ cache' = cache)]_vars

\* C3 witness: a refresh failed on malformed markup while a table was cached
C3_Witness ==
  \E h \in Handlers :
     /\ pc[h] = "done"
     /\ response[h].status = "malformed"
     /\ outcome[h].kind = "RatesUnavailable"
     /\ _rates_cache # None

\* the response is a feed without the Date attribute
NoDate(resp) == resp.status = "ok" /\ resp.root.Date = None

\* C4 as claimed: a feed without the Date attribute makes the refresh fail
\* and leaves the cache unchanged.
C4_NoDateFails ==
  [][\A h \in Handlers :
       (FetchEnds(h) /\ NoDate(response'[h]))
       => (outcome'[h].kind = "RatesUnavailable" /\ cache' = cache)]_vars

\* C4 amended: a feed without the Date attribute does not make the refresh
\* fail on that account; the clock's reading is taken as the date, and the
\* table that is built is cached with it under the call's timestamp.
C4_NoDateFallsBackToNow ==
  [][\A h \in Handlers :
       (FetchEnds(h) /\ NoDate(response'[h]))
       => /\ Failed(outcome'[h])
             => (outcome'[h].exc \notin {"ValueError", "ParseError"} /\ cache' = cache)
          /\ ~Failed(outcome'[h])
             => /\ _rates_cache' # None
                /\ _date_cache' = DatetimeNow(now)
                /\ _last_fetch_ts' = now_ts[h]]_vars

\* C4 witness: the table of a feed without Date is cached, dated by the clock
C4_Witness ==
  \E h \in Handlers :
     /\ pc[h] = "done"
     /\ NoDate(response[h])
     /\ _date_cache = DatetimeNow(now)
     /\ _rates_cache # None

IsPositive(x) == x.k = "fin" /\ x.n > 0

\* C5 as claimed: every rate of the cached table is strictly positive and
\* the rate of RUB is exactly 1.0.
C5_RatesPositiveAndBaseOne ==
  _rates_cache # None
  => /\ \A i \in 1..Len(_rates_cache) : IsPositive(_rates_cache[i][2])
     /\ DictHas(_rates_cache, RUB)
     /\ DictGet(_rates_cache, RUB) = Fin(1, 1)

\* the Date attribute is there and is a date
DateUsable(root) == root.Date # None /\ Strptime(root.Date).ok

\* C6 as claimed: whatever its Valute records hold, a well-formed feed with
\* a usable date yields a table; no record makes the refresh fail.
C6_NoRecordFailsTheRefresh ==
  [][\A h \in Handlers :
       (FetchEnds(h) /\ response'[h].status = "ok" /\ DateUsable(response'[h].root))
       => ~Failed(outcome'[h])]_vars

\* the table has USD, KZT or THB at a rate of exactly zero
ZeroTarget(rates) ==
  /\ rates # None
  /\ \E c \in {USD, KZT, THB} : DictHas(rates, c) /\ IsZero(DictGet(rates, c))

\* C8 as claimed: a conversion against a table with a zero target rate gives
\* neither a result nor an uncaught exception.
C8_ZeroTargetRateIsAFailureValue ==
  [][\A h \in Handlers :
       (pc[h] \in {"recv", "fetching"} /\ pc'[h] = "done" /\ ZeroTarget(_rates_cache'))
       => outcome'[h].kind \notin {"Result", "ZeroDivisionError"}]_vars

\* the whitespace-separated parts of a text, commas read as points
Parts(t) == Split(Strip(Replace(t, ",", ".")))

\* C9: a text whose first part is not a number is answered MissingAmount,
\* a text that is a number alone is answered MissingCurrency, in both cases
\* without a request and with the cache as it was.
C9_TextCheckedBeforeCache ==
  [][\A h \in Handlers :
       (pc[h] = "recv" /\ pc'[h] # "recv" /\ text[h] # None /\ text[h] # <<>>)
       => LET parts == Parts(text[h])
              isNumber == parts # <<>> /\ ParseFloat(parts[1]).ok
          IN /\ ~isNumber
                => /\ pc'[h] = "done"
                   /\ outcome'[h].kind = "MissingAmount"
                   /\ cache' = cache
             /\ (isNumber /\ Len(parts) = 1)
                => /\ pc'[h] = "done"
                   /\ outcome'[h].kind = "MissingCurrency"
                   /\ cache' = cache]_vars

\* C9 witness: a number alone was answered MissingCurrency, nothing cached
C9_Witness ==
  \E h \in Handlers :
     /\ pc[h] = "done"
     /\ text[h] = MsgNoCurrency
     /\ outcome[h].kind = "MissingCurrency"
     /\ _rates_cache = None

Min(S) == CHOOSE i \in S : \A j \in S : i <= j

\* C7: the first token that is an alias decides; failing that the first
\* token whose upper case is a key of the rates; failing that a code whose
\* normalized name contains the normalized phrase; failing that None.
C7_Precedence ==
  currency_code # Unset
  => LET normalized == normalize_text(raw_currency)
         toks == Tokens(raw_currency)
         aliasAt == {i \in 1..Len(toks) : DictHas(aliases, toks[i])}
         isoAt == {i \in 1..Len(toks) : DictHas(_rates_cache, Upper(toks[i]))}
         named == {i \in 1..Len(_names_cache) :
                     Contains(normalized, normalize_text(_names_cache[i][2]))}
     IN IF aliasAt # {} THEN currency_code = DictGet(aliases, toks[Min(aliasAt)])
        ELSE IF isoAt # {} THEN currency_code = Upper(toks[Min(isoAt)])
        ELSE IF named # {} THEN \E i \in named : currency_code = _names_cache[i][1]
        ELSE currency_code = None

\* C7 witness: "eur usd" on a table that quotes EUR resolved to USD
C7_Witness ==
  /\ raw_currency = <<"e","u","r"," ","u","s","d">>
  /\ DictHas(_rates_cache, <<"E","U","R">>)
  /\ currency_code = USD

\* C10 as claimed: a code returned by detect_currency_code is a key of the
\* rates.
C10_ResolvedCodeIsQuoted ==
  (currency_code # Unset /\ currency_code # None)
  => DictHas(_rates_cache, currency_code)

\* C10 amended: a code returned for an ISO-code or a name match is a key of
\* the rates; a code returned for an alias is the alias's code, whether the
\* table quotes it or not.
C10_NonAliasCodeIsQuoted ==
  (currency_code # Unset /\ currency_code # None)
  => LET toks == Tokens(raw_currency)
     IN IF \E i \in 1..Len(toks) : DictHas(aliases, toks[i])
        THEN currency_code \in {RUB, USD, KZT, THB}
        ELSE DictHas(_rates_cache, currency_code)

\* C10 witness: "kzt" resolved to KZT on a table without KZT
C10_Witness ==
  /\ currency_code = KZT
  /\ ~DictHas(_rates_cache, KZT)

====
